---- MODULE Spec2Model ----
(***************************************************************************)
(* Model of tools/ensure_plan_untracked.py: the PLAN.md guard.             *)
(*                                                                         *)
(* The script issues two git queries (ls-files --error-unmatch, diff       *)
(* --cached --name-status), parses the second one's output into a set of   *)
(* status tokens, and walks an ordered decision list that ends in one      *)
(* return code and at most one line on stderr.                             *)
(*                                                                         *)
(* Text is a sequence of characters, each character a one-symbol string;   *)
(* the file name PLAN.md is carried as one non-blank symbol.  A status     *)
(* token is therefore a sequence of characters: "D" is <<"D">>.            *)
(***************************************************************************)
EXTENDS Integers, Sequences, FiniteSets, TLC

\* Longest git output enumerated exhaustively by the parsing specification.
MaxTextLen == 4

\* ------------------------------------------------------------------------
\* Python text primitives used by staged_status_codes
\* ------------------------------------------------------------------------

\* The blank characters of the modelled alphabet (str.isspace).
Whitespace == {" ", "\t", "\n"}

\* The line boundary of the modelled alphabet (str.splitlines).
LineBreaks == {"\n"}

IsSpace(c) == c \in Whitespace

\* Index of the first character of s satisfying membership in S, or Len(s)+1.
FirstIn(s, S) ==
    IF \E i \in 1..Len(s) : s[i] \in S
    THEN CHOOSE i \in 1..Len(s) : s[i] \in S /\ \A k \in 1..(i-1) : s[k] \notin S
    ELSE Len(s) + 1

\* Index of the first character of s NOT in S, or Len(s)+1.
FirstNotIn(s, S) ==
    IF \E i \in 1..Len(s) : s[i] \notin S
    THEN CHOOSE i \in 1..Len(s) : s[i] \notin S /\ \A k \in 1..(i-1) : s[k] \in S
    ELSE Len(s) + 1

\* str.splitlines(): the lines without their terminators; a trailing
\* terminator opens no further line, and the empty text has no line.
RECURSIVE splitlines(_)
splitlines(s) ==
    IF s = <<>> THEN <<>>
    ELSE LET i == FirstIn(s, LineBreaks)
         IN  <<SubSeq(s, 1, i - 1)>> \o splitlines(SubSeq(s, i + 1, Len(s)))

\* str.lstrip()
lstrip(s) == SubSeq(s, FirstNotIn(s, Whitespace), Len(s))

\* str.rstrip()
RECURSIVE rstrip(_)
rstrip(s) ==
    IF s = <<>> THEN <<>>
    ELSE IF IsSpace(s[Len(s)]) THEN rstrip(SubSeq(s, 1, Len(s) - 1))
    ELSE s

\* str.strip()
strip(s) == rstrip(lstrip(s))

\* str.split() with no separator: the maximal runs of non-blank characters.
RECURSIVE split(_)
split(s) ==
    LET t == lstrip(s)
    IN  IF t = <<>> THEN <<>>
        ELSE LET j == FirstIn(t, Whitespace)
             IN  <<SubSeq(t, 1, j - 1)>> \o split(SubSeq(t, j, Len(t)))

\* ------------------------------------------------------------------------
\* State
\* ------------------------------------------------------------------------

VARIABLES
    gitInstalled,   \* the git executable can be started
    repoValid,      \* REPO_ROOT is a git working copy
    inIndex,        \* the index has an entry PLAN.md
    diffOutput,     \* what diff --cached --name-status prints for PLAN.md
    planExists,     \* PLAN_PATH.exists()
    pc,             \* position of the invocation
    trackedProc,    \* plan_is_tracked: the CompletedProcess `tracked`
    stagedProc,     \* staged_status_codes: the CompletedProcess `staged`
    tracked,        \* main: tracked
    staged,         \* main: staged
    existsSeen,     \* main: value of PLAN_PATH.exists() at line 72, if evaluated
    stderr,         \* lines written to sys.stderr by this invocation
    returned,       \* <<>> or <<the value main returned>>
    prev,           \* <<>> or <<outcome of the previous invocation>>
    chg,            \* the environment changed since this invocation started
    chgPrev         \* ... between the previous invocation's start and this one's

env    == <<gitInstalled, repoValid, inIndex, diffOutput, planExists>>
locals == <<trackedProc, stagedProc, tracked, staged, existsSeen, stderr, returned>>
hist   == <<prev, chg, chgPrev>>
vars   == <<gitInstalled, repoValid, inIndex, diffOutput, planExists, pc,
            trackedProc, stagedProc, tracked, staged, existsSeen, stderr,
            returned, prev, chg, chgPrev>>

\* ------------------------------------------------------------------------
\* Diagnostics
\* ------------------------------------------------------------------------

\* (the command inside the message is quoted with backquotes in the source)
MsgTracked == "PLAN.md is tracked in git; remove it with git rm --cached PLAN.md and ensure it stays ignored."

MsgStaged == "PLAN.md has staged changes; ensure it remains untracked before committing."

MsgMissing == "PLAN.md is missing from the working tree; create the planning scratchpad if the process requires it."

\* ------------------------------------------------------------------------
\* The git collaborator
\* ------------------------------------------------------------------------

\* Outputs of git diff --cached --name-status -- PLAN.md the main
\* specification moves between.
DiffOutputs ==
    { <<>>,
      <<"D", "\t", "PLAN.md", "\n">>,
      <<"A", "\t", "PLAN.md", "\n">>,
      <<"M", "\t", "PLAN.md", "\n">>,
      <<"A", "\t", "PLAN.md", "\n", "D", "\t", "PLAN.md", "\n">>,
      <<"D", "\t", "PLAN.md", "\n", "D", "\t", "PLAN.md", "\n">>,
      <<"R", "1", "0", "0", "\t", "PLAN.md", "\n">>,
      <<"\n", " ", "D", "\t", "PLAN.md", " ", "\n", " ", "\n">> }

\* Exit status git gives when it cannot answer (not a working copy, bad usage).
GitFailed(rc) == rc \notin {0, 1}

\* subprocess.run(["git", *args], check=False, capture_output=True, text=True)
\* once the executable has started: a non-zero status raises nothing.
run_git_command(args) ==
    IF args = "ls-files"
    THEN [returncode |-> IF ~repoValid THEN 128 ELSE IF inIndex THEN 0 ELSE 1,
          stdout     |-> <<>>]
    ELSE [returncode |-> IF ~repoValid THEN 129 ELSE 0,
          stdout     |-> IF ~repoValid THEN <<>> ELSE diffOutput]

\* ------------------------------------------------------------------------
\* staged_status_codes: the loop over the output's lines
\* ------------------------------------------------------------------------

\* Variant of the loop body: status = line[0], the first character.
MutantAddStatusFirstChar(statuses, line) ==
    LET l == strip(line)
    IN  IF l = <<>> THEN statuses
        ELSE statuses \cup {<<l[1]>>}

\* One iteration of the loop body.
AddStatus(statuses, line) ==
    LET l == strip(line)
    IN  IF l = <<>> THEN statuses
        ELSE LET parts == split(l)
             IN  statuses \cup {parts[1]}

RECURSIVE StatusLoop(_, _)
StatusLoop(statuses, lines) ==
    IF lines = <<>> THEN statuses
    ELSE StatusLoop(AddStatus(statuses, Head(lines)), Tail(lines))

\* The set staged_status_codes returns for a given stdout.
StatusCodes(stdout) == StatusLoop({}, splitlines(stdout))

\* ------------------------------------------------------------------------
\* Init
\* ------------------------------------------------------------------------

InitLocals ==
    /\ pc = "idle"
    /\ trackedProc = <<>>
    /\ stagedProc = <<>>
    /\ tracked = FALSE
    /\ staged = {}
    /\ existsSeen = <<>>
    /\ stderr = <<>>
    /\ returned = <<>>
    /\ prev = <<>>
    /\ chg = FALSE
    /\ chgPrev = FALSE

Init ==
    /\ gitInstalled = TRUE
    /\ repoValid = TRUE
    /\ inIndex = FALSE
    /\ diffOutput = <<>>
    /\ planExists = TRUE
    /\ InitLocals

\* ------------------------------------------------------------------------
\* One invocation of the script, statement by statement
\* ------------------------------------------------------------------------

\* sys.exit(main()) is entered: a fresh process, nothing read yet.
Invoke ==
    /\ pc = "idle"
    /\ pc' = "plan_is_tracked"
    /\ chgPrev' = chg
    /\ chg' = FALSE
    /\ UNCHANGED <<env, locals, prev>>

\* tracked = plan_is_tracked().  subprocess.run raises FileNotFoundError when
\* the executable cannot be started; nothing catches it.
PlanIsTracked ==
    /\ pc = "plan_is_tracked"
    /\ IF ~gitInstalled
       THEN /\ pc' = "fatal"
            /\ UNCHANGED locals
       ELSE LET p == run_git_command("ls-files")
            IN  /\ trackedProc' = <<p>>
                /\ tracked' = (p.returncode = 0)
                /\ pc' = "staged_status_codes"
                /\ UNCHANGED <<stagedProc, staged, existsSeen, stderr, returned>>
    /\ UNCHANGED <<env, hist>>

\* staged = staged_status_codes()
StagedStatusCodes ==
    /\ pc = "staged_status_codes"
    /\ IF ~gitInstalled
       THEN /\ pc' = "fatal"
            /\ UNCHANGED locals
       ELSE LET p == run_git_command("diff")
            IN  /\ stagedProc' = <<p>>
                /\ staged' = StatusCodes(p.stdout)
                /\ pc' = "if_tracked"
                /\ UNCHANGED <<trackedProc, tracked, existsSeen, stderr, returned>>
    /\ UNCHANGED <<env, hist>>

\* Variant: if tracked and not staged.
MutantIfTrackedOnlyWhenUnstaged ==
    /\ pc = "if_tracked"
    /\ IF tracked /\ staged = {}
       THEN /\ stderr' = Append(stderr, MsgTracked)
            /\ returned' = <<1>>
            /\ pc' = "done"
       ELSE /\ pc' = "if_invalid"
            /\ UNCHANGED <<stderr, returned>>
    /\ UNCHANGED <<env, hist, trackedProc, stagedProc, tracked, staged, existsSeen>>

\* Variant: the tracked branch writes its diagnostic and falls through.
MutantIfTrackedNoReturn ==
    /\ pc = "if_tracked"
    /\ IF tracked
       THEN /\ stderr' = Append(stderr, MsgTracked)
            /\ pc' = "if_invalid"
            /\ UNCHANGED returned
       ELSE /\ pc' = "if_invalid"
            /\ UNCHANGED <<stderr, returned>>
    /\ UNCHANGED <<env, hist, trackedProc, stagedProc, tracked, staged, existsSeen>>

\* if tracked: write the diagnostic, return 1
IfTracked ==
    /\ pc = "if_tracked"
    /\ IF tracked
       THEN /\ stderr' = Append(stderr, MsgTracked)
            /\ returned' = <<1>>
            /\ pc' = "done"
       ELSE /\ pc' = "if_invalid"
            /\ UNCHANGED <<stderr, returned>>
    /\ UNCHANGED <<env, hist, trackedProc, stagedProc, tracked, staged, existsSeen>>

\* Variant: if staged and "D" not in staged.
MutantIfInvalidUnlessDelete ==
    /\ pc = "if_invalid"
    /\ IF staged # {} /\ <<"D">> \notin staged
       THEN /\ stderr' = Append(stderr, MsgStaged)
            /\ returned' = <<2>>
            /\ pc' = "done"
       ELSE /\ pc' = "if_deleted"
            /\ UNCHANGED <<stderr, returned>>
    /\ UNCHANGED <<env, hist, trackedProc, stagedProc, tracked, staged, existsSeen>>

\* Variant: the invalid branch returns 2 without writing.
MutantIfInvalidSilent ==
    /\ pc = "if_invalid"
    /\ IF staged \ {<<"D">>} # {}
       THEN /\ returned' = <<2>>
            /\ pc' = "done"
            /\ UNCHANGED stderr
       ELSE /\ pc' = "if_deleted"
            /\ UNCHANGED <<stderr, returned>>
    /\ UNCHANGED <<env, hist, trackedProc, stagedProc, tracked, staged, existsSeen>>

\* invalid_statuses = staged.difference({"D"}); if invalid_statuses: return 2
IfInvalidStatuses ==
    /\ pc = "if_invalid"
    /\ LET invalid_statuses == staged \ {<<"D">>}
       IN  IF invalid_statuses # {}
           THEN /\ stderr' = Append(stderr, MsgStaged)
                /\ returned' = <<2>>
                /\ pc' = "done"
           ELSE /\ pc' = "if_deleted"
                /\ UNCHANGED <<stderr, returned>>
    /\ UNCHANGED <<env, hist, trackedProc, stagedProc, tracked, staged, existsSeen>>

\* Variant: no staged-deletion branch.
MutantIfStagedDeleteSkipped ==
    /\ pc = "if_deleted"
    /\ pc' = "if_missing"
    /\ UNCHANGED <<env, hist, locals>>

\* Variant: a staged deletion is refused like any other staged change.
MutantIfStagedDeleteRejected ==
    /\ pc = "if_deleted"
    /\ IF <<"D">> \in staged
       THEN /\ stderr' = Append(stderr, MsgStaged)
            /\ returned' = <<2>>
            /\ pc' = "done"
       ELSE /\ pc' = "if_missing"
            /\ UNCHANGED <<stderr, returned>>
    /\ UNCHANGED <<env, hist, trackedProc, stagedProc, tracked, staged, existsSeen>>

\* if "D" in staged: return 0
IfStagedDelete ==
    /\ pc = "if_deleted"
    /\ IF <<"D">> \in staged
       THEN /\ returned' = <<0>>
            /\ pc' = "done"
       ELSE /\ pc' = "if_missing"
            /\ UNCHANGED returned
    /\ UNCHANGED <<env, hist, trackedProc, stagedProc, tracked, staged, existsSeen, stderr>>

\* Variant: if PLAN_PATH.exists().
MutantIfMissingInverted ==
    /\ pc = "if_missing"
    /\ existsSeen' = <<planExists>>
    /\ IF planExists
       THEN /\ stderr' = Append(stderr, MsgMissing)
            /\ returned' = <<3>>
       ELSE /\ returned' = <<0>>
            /\ UNCHANGED stderr
    /\ pc' = "done"
    /\ UNCHANGED <<env, hist, trackedProc, stagedProc, tracked, staged>>

\* Variant: the script touches PLAN.md after looking for it.
MutantIfMissingCreates ==
    /\ pc = "if_missing"
    /\ existsSeen' = <<planExists>>
    /\ IF ~planExists
       THEN /\ stderr' = Append(stderr, MsgMissing)
            /\ returned' = <<3>>
       ELSE /\ returned' = <<0>>
            /\ UNCHANGED stderr
    /\ planExists' = TRUE
    /\ pc' = "done"
    /\ UNCHANGED <<gitInstalled, repoValid, inIndex, diffOutput, hist,
                   trackedProc, stagedProc, tracked, staged>>

\* if not PLAN_PATH.exists(): return 3; otherwise return 0
IfMissing ==
    /\ pc = "if_missing"
    /\ existsSeen' = <<planExists>>
    /\ IF ~planExists
       THEN /\ stderr' = Append(stderr, MsgMissing)
            /\ returned' = <<3>>
       ELSE /\ returned' = <<0>>
            /\ UNCHANGED stderr
    /\ pc' = "done"
    /\ UNCHANGED <<env, hist, trackedProc, stagedProc, tracked, staged>>

\* What an invocation leaves behind for its caller.
Outcome == [pc |-> pc, returned |-> returned, stderr |-> stderr]

\* The process ends: sys.exit with main's value, or the uncaught exception.
Exit ==
    /\ pc \in {"done", "fatal"}
    /\ prev' = <<Outcome>>
    /\ pc' = "idle"
    /\ trackedProc' = <<>>
    /\ stagedProc' = <<>>
    /\ tracked' = FALSE
    /\ staged' = {}
    /\ existsSeen' = <<>>
    /\ stderr' = <<>>
    /\ returned' = <<>>
    /\ UNCHANGED <<env, chg, chgPrev>>

\* ------------------------------------------------------------------------
\* The environment: git and the working tree change under other hands
\* ------------------------------------------------------------------------

IndexChange ==
    /\ inIndex' = ~inIndex
    /\ chg' = TRUE
    /\ UNCHANGED <<gitInstalled, repoValid, diffOutput, planExists, pc, locals,
                   prev, chgPrev>>

StagedChange ==
    /\ \E t \in DiffOutputs \ {diffOutput} : diffOutput' = t
    /\ chg' = TRUE
    /\ UNCHANGED <<gitInstalled, repoValid, inIndex, planExists, pc, locals,
                   prev, chgPrev>>

WorkingTreeChange ==
    /\ planExists' = ~planExists
    /\ chg' = TRUE
    /\ UNCHANGED <<gitInstalled, repoValid, inIndex, diffOutput, pc, locals,
                   prev, chgPrev>>

RepoChange ==
    /\ repoValid' = ~repoValid
    /\ chg' = TRUE
    /\ UNCHANGED <<gitInstalled, inIndex, diffOutput, planExists, pc, locals,
                   prev, chgPrev>>

GitInstallChange ==
    /\ gitInstalled' = ~gitInstalled
    /\ chg' = TRUE
    /\ UNCHANGED <<repoValid, inIndex, diffOutput, planExists, pc, locals,
                   prev, chgPrev>>

\* ------------------------------------------------------------------------
\* Specifications
\* ------------------------------------------------------------------------

Next ==
    \/ Invoke
    \/ PlanIsTracked
    \/ StagedStatusCodes
    \/ IfTracked
    \/ IfInvalidStatuses
    \/ IfStagedDelete
    \/ IfMissing
    \/ Exit
    \/ IndexChange
    \/ StagedChange
    \/ WorkingTreeChange
    \/ RepoChange
    \/ GitInstallChange

Spec == Init /\ [][Next]_vars

\* The parsing specification: every text over the alphabet up to MaxTextLen
\* as the staged-diff output of a working copy whose index lacks PLAN.md,
\* and invocations against an environment that stays put.
Alphabet == {"D", "R", "1", " ", "\t", "\n"}

Texts == UNION { [1..n -> Alphabet] : n \in 0..MaxTextLen }

InitParse ==
    /\ gitInstalled = TRUE
    /\ repoValid = TRUE
    /\ inIndex = FALSE
    /\ diffOutput \in Texts
    /\ planExists \in BOOLEAN
    /\ InitLocals

NextParse ==
    \/ Invoke
    \/ PlanIsTracked
    \/ StagedStatusCodes
    \/ IfTracked
    \/ IfInvalidStatuses
    \/ IfStagedDelete
    \/ IfMissing
    \/ Exit

SpecParse == InitParse /\ [][NextParse]_vars

\* ------------------------------------------------------------------------
\* Properties
\* ------------------------------------------------------------------------

Deleted == <<"D">>

\* C1: an invocation whose plan_is_tracked() answered true returns 1 and
\* writes exactly the tracked diagnostic, whatever the staged set is and
\* whether or not PLAN.md exists.
C1_TrackedReturnsOne ==
    (pc = "done" /\ tracked) =>
        /\ returned = <<1>>
        /\ stderr = <<MsgTracked>>

C1_Witness ==
    /\ pc = "done"
    /\ tracked
    /\ staged = {Deleted}
    /\ ~planExists
    /\ returned = <<1>>

\* C2: an untracked PLAN.md whose staged set holds any code other than "D"
\* yields 2 with the staged diagnostic, also when "D" is in the set too and
\* whether or not the file exists.
C2_InvalidStagedReturnsTwo ==
    (pc = "done" /\ ~tracked /\ staged \ {Deleted} # {}) =>
        /\ returned = <<2>>
        /\ stderr = <<MsgStaged>>

C2_Witness ==
    /\ pc = "done"
    /\ ~tracked
    /\ staged = {<<"A">>, Deleted}
    /\ ~planExists
    /\ returned = <<2>>

\* C3: an untracked PLAN.md whose staged set is exactly {"D"} yields 0 with
\* nothing written, and the existence of the file is never consulted.
C3_StagedDeleteReturnsZero ==
    (pc = "done" /\ ~tracked /\ staged = {Deleted}) =>
        /\ returned = <<0>>
        /\ stderr = <<>>
        /\ existsSeen = <<>>

C3_Witness ==
    /\ pc = "done"
    /\ ~tracked
    /\ staged = {Deleted}
    /\ ~planExists
    /\ returned = <<0>>

\* C4: an untracked PLAN.md with an empty staged set yields 3 with the
\* missing diagnostic when the file does not exist, and 0 with nothing
\* written when it does.
C4_UnstagedDependsOnExistence ==
    (pc = "done" /\ ~tracked /\ staged = {}) =>
        /\ existsSeen # <<>>
        /\ IF existsSeen[1]
           THEN returned = <<0>> /\ stderr = <<>>
           ELSE returned = <<3>> /\ stderr = <<MsgMissing>>

C4_Witness ==
    /\ pc = "done"
    /\ ~tracked
    /\ staged = {}
    /\ existsSeen = <<FALSE>>
    /\ returned = <<3>>

C7_FailedQueryIsFatal ==
    pc = "done" =>
        /\ ~GitFailed(trackedProc[1].returncode)
        /\ ~GitFailed(stagedProc[1].returncode)

\* C8: a completed invocation returned exactly one code of 0..3 and wrote
\* exactly the diagnostic of that code (none for 0); no invocation ever has
\* more than one line on stderr, and none returns before it completes.
C8_OneCodeOneDiagnostic ==
    /\ Len(stderr) <= 1
    /\ pc # "done" => returned = <<>>
    /\ pc = "done" =>
        /\ Len(returned) = 1
        /\ returned[1] \in 0..3
        /\ stderr = CASE returned[1] = 0 -> <<>>
                      [] returned[1] = 1 -> <<MsgTracked>>
                      [] returned[1] = 2 -> <<MsgStaged>>
                      [] returned[1] = 3 -> <<MsgMissing>>
                      [] OTHER -> <<"">>

C8_Witness ==
    /\ pc = "done"
    /\ returned = <<2>>
    /\ stderr = <<MsgStaged>>

\* C9: an invocation that ends with the index, the staged changes, the
\* working tree and git itself untouched since the previous invocation
\* started ends as the previous one did: same code, same diagnostic.
C9_Idempotent ==
    (pc \in {"done", "fatal"} /\ prev # <<>> /\ ~chg /\ ~chgPrev) =>
        prev[1] = Outcome

C9_Witness ==
    /\ pc = "done"
    /\ prev # <<>>
    /\ ~chg
    /\ ~chgPrev
    /\ returned = <<3>>
    /\ prev[1].returned = <<3>>

\* The leading tokens of a text, read off the text directly: the maximal
\* runs of non-blank characters that only blanks separate from the start of
\* their line.
LeadingTokens(text) ==
    { SubSeq(text, i, j) : <<i, j>> \in
        { ij \in (1..Len(text)) \X (1..Len(text)) :
            /\ ij[1] <= ij[2]
            /\ \A k \in ij[1]..ij[2] : text[k] \notin Whitespace
            /\ (ij[2] = Len(text) \/ text[ij[2] + 1] \in Whitespace)
            /\ \A k \in 1..(ij[1] - 1) :
                  (\A m \in k..(ij[1] - 1) : text[m] \notin LineBreaks)
                      => text[k] \in Whitespace } }

\* C10: staged_status_codes returns exactly the set of leading tokens of the
\* non-blank lines of the diff output (blank lines add nothing, repeats
\* collapse, no non-blank line gives the empty set), and a leading token
\* other than "D" on an untracked file ends the invocation with 2.
C10_StatusCodesAreLeadingTokens ==
    stagedProc # <<>> =>
        /\ staged = LeadingTokens(stagedProc[1].stdout)
        /\ (/\ pc = "done"
            /\ ~tracked
            /\ \E t \in LeadingTokens(stagedProc[1].stdout) : t # Deleted)
              => returned = <<2>>

C10_Witness ==
    /\ pc = "done"
    /\ stagedProc # <<>>
    /\ stagedProc[1].stdout = <<"\n", "R", "1", "\t">>
    /\ staged = {<<"R", "1">>}
    /\ returned = <<2>>

====
